---- MODULE Spec2Model ----
(***************************************************************************)
(* Model of src/ai_agent.py: the Sentence constraint type and the          *)
(* MinesweeperAI knowledge base (add_knowledge, mark_mine, mark_safe,      *)
(* neighbors, make_safe_move, make_random_move), driven by a truthful      *)
(* board oracle.                                                           *)
(***************************************************************************)
EXTENDS Integers, FiniteSets, Sequences, TLC

VARIABLES height, width, board, moves_made, mines, safes, knowledge,
          lastOp, lastObs, sweptKnowledge, derivedKnowledge, calls, run

vars == <<height, width, board, moves_made, mines, safes, knowledge,
          lastOp, lastObs, sweptKnowledge, derivedKnowledge, calls, run>>

\* ---------------------------------------------------------------- bounds
\* Largest board dimensions handed to MinesweeperAI.__init__.
MaxHeight == 2
MaxWidth == 3
\* Largest number of mines the oracle's board holds.
MaxMines == 2
\* Largest number of state-changing calls (add_knowledge, mark_mine, mark_safe)
\* made on one engine.
MaxCalls == 3
\* Largest number of sentences a call of add_knowledge may leave in knowledge.
MaxKnowledge == 5
\* Largest number of cells of a board on which the game loop is played out.
MaxGameCells == 6
\* Longest knowledge list a call of add_knowledge is followed to while it runs.
MaxList == 40

\* ---------------------------------------------------------------- cells
Cells == (0 .. height - 1) \X (0 .. width - 1)

None == <<-1, -1>>

\* The in-bounds cells within one row and one column of cell, cell excluded.
Adjacent(cell) ==
    {n \in Cells : /\ n # cell
                   /\ n[1] \in (cell[1] - 1) .. (cell[1] + 1)
                   /\ n[2] \in (cell[2] - 1) .. (cell[2] + 1)}

\* The board's answer for a revealed cell: mines among its neighbours.
OracleCount(cell) == Cardinality(Adjacent(cell) \cap board)

\* ---------------------------------------------------------------- Sentence
Sentence(cells, count) == [cells |-> cells, count |-> count]

\* Sentence.__eq__: joint equality on cells and count.
SentenceEq(a, b) == a.cells = b.cells /\ a.count = b.count

\* Sentence.__hash__: the count alone.
SentenceHash(s) == s.count

\* What known_mines / known_safes hand back: the cell set, or False.
PyFalse == [isSet |-> FALSE, cells |-> {}]
PySet(S) == [isSet |-> TRUE, cells |-> S]
\* Python truthiness of such a value: False and the empty set are falsy.
Truthy(v) == v.isSet /\ v.cells # {}

known_mines(s) ==
    IF Cardinality(s.cells) = s.count /\ s.count # 0 THEN PySet(s.cells) ELSE PyFalse

known_safes(s) ==
    IF s.count = 0 THEN PySet(s.cells) ELSE PyFalse

SentenceMarkMine_Unguarded(s, cell) ==
    [cells |-> s.cells \ {cell}, count |-> s.count - 1]

SentenceMarkMine_KeepCount(s, cell) ==
    IF cell \in s.cells
    THEN [cells |-> s.cells \ {cell}, count |-> s.count]
    ELSE s

SentenceMarkMine(s, cell) ==
    IF cell \in s.cells
    THEN [cells |-> s.cells \ {cell}, count |-> s.count - 1]
    ELSE s

SentenceMarkSafe_Decrement(s, cell) ==
    IF cell \in s.cells
    THEN [cells |-> s.cells \ {cell}, count |-> s.count - 1]
    ELSE s

SentenceMarkSafe(s, cell) ==
    IF cell \in s.cells
    THEN [cells |-> s.cells \ {cell}, count |-> s.count]
    ELSE s

\* ---------------------------------------------------------------- engine
\* The engine's fields as one record, for composing the methods.
Engine(mm, mi, sa, kn) ==
    [moves_made |-> mm, mines |-> mi, safes |-> sa, knowledge |-> kn]

Current == Engine(moves_made, mines, safes, knowledge)

\* MinesweeperAI.mark_mine
mark_mine(E, cell) ==
    [E EXCEPT !.mines = @ \cup {cell},
              !.knowledge = [i \in DOMAIN @ |-> SentenceMarkMine(@[i], cell)]]

mark_safe_Exclusive(E, cell) ==
    [E EXCEPT !.safes = @ \cup {cell},
              !.mines = @ \ {cell},
              !.knowledge = [i \in DOMAIN @ |-> SentenceMarkSafe(@[i], cell)]]

\* MinesweeperAI.mark_safe
mark_safe(E, cell) ==
    [E EXCEPT !.safes = @ \cup {cell},
              !.knowledge = [i \in DOMAIN @ |-> SentenceMarkSafe(@[i], cell)]]

\* for additional_cell in sentence.known_mines().copy(): self.mark_mine(...)
RECURSIVE MarkAllMines(_, _)
MarkAllMines(E, S) ==
    IF S = {} THEN E
    ELSE LET c == CHOOSE x \in S : TRUE
         IN  MarkAllMines(mark_mine(E, c), S \ {c})

\* for additional_cell in sentence.known_safes().copy(): self.mark_safe(...)
RECURSIVE MarkAllSafes(_, _)
MarkAllSafes(E, S) ==
    IF S = {} THEN E
    ELSE LET c == CHOOSE x \in S : TRUE
         IN  MarkAllSafes(mark_safe(E, c), S \ {c})

\* The (i, j) pairs the two range loops of neighbors visit, in order.
NeighborScan(cell) ==
    [k \in 1 .. 9 |-> <<cell[1] - 1 + ((k - 1) \div 3), cell[2] - 1 + ((k - 1) % 3)>>]

NeighborStep_LooseBounds(E, cell, acc, n) ==
    IF n = cell THEN acc
    ELSE IF 0 <= n[1] /\ n[1] <= height /\ 0 <= n[2] /\ n[2] <= width
         THEN IF n \in E.mines
              THEN [acc EXCEPT !.count = @ - 1]
              ELSE IF n \notin E.safes \/ n \notin E.moves_made
                   THEN [acc EXCEPT !.cells = @ \cup {n}]
                   ELSE acc
         ELSE acc

\* The body of the inner loop of neighbors for (i, j) = n; acc holds
\* neighboring_cells and the running count.
NeighborStep(E, cell, acc, n) ==
    IF n = cell THEN acc
    ELSE IF 0 <= n[1] /\ n[1] < height /\ 0 <= n[2] /\ n[2] < width
         THEN IF n \in E.mines
              THEN [acc EXCEPT !.count = @ - 1]
              ELSE IF n \notin E.safes \/ n \notin E.moves_made
                   THEN [acc EXCEPT !.cells = @ \cup {n}]
                   ELSE acc
         ELSE acc

\* The two nested loops of neighbors, from the k-th visited pair on.
RECURSIVE NeighborsLoop(_, _, _, _, _)
NeighborsLoop(E, cell, scan, acc, k) ==
    IF k > Len(scan) THEN acc
    ELSE NeighborsLoop(E, cell, scan, NeighborStep(E, cell, acc, scan[k]), k + 1)

neighbors_NoAdjust(E, cell, count) ==
    Sentence(NeighborsLoop(E, cell, NeighborScan(cell), Sentence({}, count), 1).cells, count)

\* MinesweeperAI.neighbors: the sentence built for an observation.
neighbors(E, cell, count) ==
    NeighborsLoop(E, cell, NeighborScan(cell), Sentence({}, count), 1)

ExtractAt_MinesOnly(E, idx) ==
    LET km == known_mines(E.knowledge[idx])
    IN  IF Truthy(km) THEN MarkAllMines(E, km.cells) ELSE E

\* One iteration of the extraction loop, on the sentence at position idx.
ExtractAt(E, idx) ==
    LET km == known_mines(E.knowledge[idx])
        E1 == IF Truthy(km) THEN MarkAllMines(E, km.cells) ELSE E
        ks == known_safes(E1.knowledge[idx])
    IN  IF Truthy(ks) THEN MarkAllSafes(E1, ks.cells) ELSE E1

\* for sentence in self.knowledge: one sweep in list order.
RECURSIVE Sweep(_, _)
Sweep(E, idx) ==
    IF idx > Len(E.knowledge) THEN E
    ELSE Sweep(ExtractAt(E, idx), idx + 1)

DerivePair_KeepCount(kn, i, j) ==
    IF j.cells = i.cells THEN kn
    ELSE IF j.cells \subseteq i.cells
         THEN Append(kn, Sentence(i.cells \ j.cells, i.count))
         ELSE kn

\* The body of the inner loop for the pair (i, j).
DerivePair(kn, i, j) ==
    IF j.cells = i.cells THEN kn
    ELSE IF j.cells \subseteq i.cells
         THEN Append(kn, Sentence(i.cells \ j.cells, i.count - j.count))
         ELSE kn

\* for j in self.knowledge.copy(): over the copy taken when i's turn starts.
RECURSIVE DeriveInner(_, _, _, _)
DeriveInner(kn, i, copyJ, n) ==
    IF n > Len(copyJ) THEN kn
    ELSE DeriveInner(DerivePair(kn, i, copyJ[n]), i, copyJ, n + 1)

\* for i in self.knowledge.copy(): over the copy taken when the pass starts.
RECURSIVE DeriveOuter(_, _, _)
DeriveOuter(kn, copyI, m) ==
    IF m > Len(copyI) THEN kn
    ELSE DeriveOuter(DeriveInner(kn, copyI[m], kn, 1), copyI, m + 1)

Derive(kn) == DeriveOuter(kn, kn, 1)

Range(seq) == {seq[i] : i \in DOMAIN seq}

SetContains_HashOnly(S, s) ==
    \E t \in S : SentenceHash(t) = SentenceHash(s)

\* Membership in a Python set of sentences: same hash and __eq__.
SetContains(S, s) ==
    \E t \in S : SentenceHash(t) = SentenceHash(s) /\ SentenceEq(t, s)

\* set(self.knowledge): insert in list order, keep the first of equal ones.
RECURSIVE SetOf(_, _, _)
SetOf(kn, n, acc) ==
    IF n > Len(kn) THEN acc
    ELSE SetOf(kn, n + 1, IF SetContains(acc, kn[n]) THEN acc ELSE acc \cup {kn[n]})

\* The orders in which list(...) may enumerate a set.
RECURSIVE Orders(_)
Orders(S) ==
    IF S = {} THEN {<<>>}
    ELSE UNION {{<<x>> \o p : p \in Orders(S \ {x})} : x \in S}

\* list(set(self.knowledge))
Dedup(kn) == Orders(SetOf(kn, 1, {}))

\* add_knowledge up to the append of the new sentence.
Insert(E, cell, count) ==
    LET E1 == [E EXCEPT !.moves_made = @ \cup {cell}]
        E2 == IF cell \notin E1.safes THEN mark_safe(E1, cell) ELSE E1
    IN  [E2 EXCEPT !.knowledge = Append(@, neighbors(E2, cell, count))]

\* add_knowledge up to the end of the extraction sweep.
Observe(E, cell, count) == Sweep(Insert(E, cell, count), 1)

SafeMoves_AnySafe(E) == E.safes

\* make_safe_move: the cells the loop over self.safes may return.
SafeMoves(E) == {c \in E.safes : c \notin E.moves_made}

RandomMoves_IgnoreMines(E) == {c \in Cells : c \notin E.moves_made}

\* make_random_move: the list `moves`.
RandomMoves(E) == {c \in Cells : c \notin E.moves_made /\ c \notin E.mines}

\* ---------------------------------------------------------------- actions
\* Where a call of add_knowledge stands when it is followed loop iteration by
\* loop iteration: the loop it is in, the loop indices and the list copies.
RunIdle ==
    [pc |-> "idle", idx |-> 0, copyI |-> <<>>, i |-> 0, copyJ |-> <<>>, j |-> 0]

Init ==
    /\ height \in 1 .. MaxHeight
    /\ width \in 1 .. MaxWidth
    /\ board \in {b \in SUBSET Cells : Cardinality(b) <= MaxMines}
    /\ moves_made = {}
    /\ mines = {}
    /\ safes = {}
    /\ knowledge = <<>>
    /\ lastOp = [op |-> "init", cell |-> None, ret |-> None]
    /\ lastObs = [cell |-> None, count |-> 0]
    /\ sweptKnowledge = <<>>
    /\ derivedKnowledge = <<>>
    /\ calls = 0
    /\ run = RunIdle

\* add_knowledge(cell, count) with the oracle's count for a mine-free cell.
AddKnowledgeCall(cell) ==
    /\ cell \notin board
    /\ calls' = calls + 1
    /\ LET E == Observe(Current, cell, OracleCount(cell))
           D == Derive(E.knowledge)
       IN  /\ moves_made' = E.moves_made
           /\ mines' = E.mines
           /\ safes' = E.safes
           /\ sweptKnowledge' = E.knowledge
           /\ derivedKnowledge' = D
           /\ Cardinality(SetOf(D, 1, {})) <= MaxKnowledge
           /\ knowledge' \in Dedup(D)
    /\ lastOp' = [op |-> "add_knowledge", cell |-> cell, ret |-> None]
    /\ lastObs' = [cell |-> cell, count |-> OracleCount(cell)]
    /\ UNCHANGED <<height, width, board, run>>

\* add_knowledge called by a caller with a truthful count, any cell, while
\* the call budget lasts.
AddKnowledge(cell) ==
    /\ calls < MaxCalls
    /\ AddKnowledgeCall(cell)

MakeSafeMove ==
    /\ \E r \in (IF SafeMoves(Current) = {} THEN {None} ELSE SafeMoves(Current)) :
          lastOp' = [op |-> "make_safe_move", cell |-> None, ret |-> r]
    /\ UNCHANGED <<height, width, board, moves_made, mines, safes, knowledge,
                   lastObs, sweptKnowledge, derivedKnowledge, calls, run>>

MakeRandomMove ==
    /\ \E r \in (IF RandomMoves(Current) = {} THEN {None} ELSE RandomMoves(Current)) :
          lastOp' = [op |-> "make_random_move", cell |-> None, ret |-> r]
    /\ UNCHANGED <<height, width, board, moves_made, mines, safes, knowledge,
                   lastObs, sweptKnowledge, derivedKnowledge, calls, run>>

Next ==
    \/ \E cell \in Cells : AddKnowledge(cell)
    \/ MakeSafeMove
    \/ MakeRandomMove

Spec == Init /\ [][Next]_vars

\* A caller invoking the public mark_mine(cell) directly.
MarkMine(cell) ==
    /\ calls < MaxCalls
    /\ calls' = calls + 1
    /\ LET E == mark_mine(Current, cell)
       IN  /\ mines' = E.mines
           /\ knowledge' = E.knowledge
    /\ lastOp' = [op |-> "mark_mine", cell |-> cell, ret |-> None]
    /\ UNCHANGED <<height, width, board, moves_made, safes,
                   lastObs, sweptKnowledge, derivedKnowledge, run>>

\* A caller invoking the public mark_safe(cell) directly.
MarkSafe(cell) ==
    /\ calls < MaxCalls
    /\ calls' = calls + 1
    /\ LET E == mark_safe(Current, cell)
       IN  /\ safes' = E.safes
           /\ knowledge' = E.knowledge
    /\ lastOp' = [op |-> "mark_safe", cell |-> cell, ret |-> None]
    /\ UNCHANGED <<height, width, board, moves_made, mines,
                   lastObs, sweptKnowledge, derivedKnowledge, run>>

NextMark ==
    \/ \E cell \in Cells : AddKnowledge(cell)
    \/ \E cell \in Cells : MarkMine(cell)
    \/ \E cell \in Cells : MarkSafe(cell)

\* The engine driven through all of its state-changing methods, the marking
\* methods included.
SpecMark == Init /\ [][NextMark]_vars

\* One turn of the game loop: play the cell make_safe_move returns, or the one
\* make_random_move returns when make_safe_move returns None; a mine ends the
\* game, any other cell goes to add_knowledge with the board's count.
GameTurn ==
    /\ lastOp.op # "hit_mine"
    /\ height * width <= MaxGameCells
    /\ calls <= height * width
    /\ LET safe == SafeMoves(Current)
           moves == IF safe # {} THEN safe ELSE RandomMoves(Current)
       IN  \E cell \in moves :
              IF cell \in board
              THEN /\ lastOp' = [op |-> "hit_mine", cell |-> cell, ret |-> cell]
                   /\ calls' = calls + 1
                   /\ UNCHANGED <<height, width, board, moves_made, mines, safes,
                                  knowledge, lastObs, sweptKnowledge, derivedKnowledge, run>>
              ELSE AddKnowledgeCall(cell)

NextGame == GameTurn

\* The engine driven by the game loop alone.
SpecGame == Init /\ [][NextGame]_vars

InnerList_Live(r, kn) == kn

\* The list the inner derivation loop runs over: the copy of self.knowledge
\* taken when the loop was entered.
InnerList(r, kn) == r.copyJ

\* add_knowledge entered: lines 110-117, then the extraction loop starts.
StepBegin(cell) ==
    /\ run.pc = "idle"
    /\ cell \notin board
    /\ calls < MaxCalls
    /\ calls' = calls + 1
    /\ Cardinality(SetOf(Derive(Observe(Current, cell, OracleCount(cell)).knowledge), 1, {}))
          <= MaxKnowledge
    /\ LET E == Insert(Current, cell, OracleCount(cell))
       IN  /\ moves_made' = E.moves_made
           /\ safes' = E.safes
           /\ knowledge' = E.knowledge
    /\ run' = [RunIdle EXCEPT !.pc = "sweep", !.idx = 1]
    /\ lastOp' = [op |-> "add_knowledge", cell |-> cell, ret |-> None]
    /\ lastObs' = [cell |-> cell, count |-> OracleCount(cell)]
    /\ UNCHANGED <<height, width, board, mines, sweptKnowledge, derivedKnowledge>>

\* One iteration of `for sentence in self.knowledge`, or its exit into the
\* outer derivation loop, which takes its copy of the list.
StepSweep ==
    /\ run.pc = "sweep"
    /\ IF run.idx <= Len(knowledge)
       THEN /\ LET E == ExtractAt(Current, run.idx)
               IN  /\ mines' = E.mines
                   /\ safes' = E.safes
                   /\ knowledge' = E.knowledge
            /\ run' = [run EXCEPT !.idx = @ + 1]
            /\ UNCHANGED sweptKnowledge
       ELSE /\ run' = [run EXCEPT !.pc = "outer", !.copyI = knowledge, !.i = 1]
            /\ sweptKnowledge' = knowledge
            /\ UNCHANGED <<mines, safes, knowledge>>
    /\ UNCHANGED <<height, width, board, moves_made, lastOp, lastObs,
                   derivedKnowledge, calls>>

\* `for i in self.knowledge.copy()`: the next i, for which the inner loop
\* takes its own copy, or the exit to the dedup statement.
StepOuter ==
    /\ run.pc = "outer"
    /\ IF run.i <= Len(run.copyI)
       THEN /\ run' = [run EXCEPT !.pc = "inner", !.copyJ = knowledge, !.j = 1]
            /\ UNCHANGED derivedKnowledge
       ELSE /\ run' = [run EXCEPT !.pc = "dedup"]
            /\ derivedKnowledge' = knowledge
    /\ UNCHANGED <<height, width, board, moves_made, mines, safes, knowledge,
                   lastOp, lastObs, sweptKnowledge, calls>>

\* One iteration of `for j in self.knowledge.copy()`, or its exit.
StepInner ==
    /\ run.pc = "inner"
    /\ IF run.j <= Len(InnerList(run, knowledge))
       THEN /\ Len(knowledge) < MaxList
            /\ knowledge' = DerivePair(knowledge, run.copyI[run.i],
                                        InnerList(run, knowledge)[run.j])
            /\ run' = [run EXCEPT !.j = @ + 1]
       ELSE /\ run' = [run EXCEPT !.pc = "outer", !.i = @ + 1]
            /\ UNCHANGED knowledge
    /\ UNCHANGED <<height, width, board, moves_made, mines, safes,
                   lastOp, lastObs, sweptKnowledge, derivedKnowledge, calls>>

\* self.knowledge = list(set(self.knowledge)), and the call returns.
StepDedup ==
    /\ run.pc = "dedup"
    /\ knowledge' \in Dedup(knowledge)
    /\ run' = RunIdle
    /\ UNCHANGED <<height, width, board, moves_made, mines, safes,
                   lastOp, lastObs, sweptKnowledge, derivedKnowledge, calls>>

Steps == StepSweep \/ StepOuter \/ StepInner \/ StepDedup

NextSteps ==
    \/ \E cell \in Cells : StepBegin(cell)
    \/ StepSweep
    \/ StepOuter
    \/ StepInner
    \/ StepDedup

\* add_knowledge followed one loop iteration at a time; once entered, the
\* call keeps running.
SpecSteps == Init /\ [][NextSteps]_vars /\ WF_vars(Steps)

\* ---------------------------------------------------------------- properties
EngineVars == <<moves_made, mines, safes, knowledge>>

\* C1: with a truthful oracle every cell of safes is mine-free on the board,
\* every cell of mines is a mine on the board, and a cell returned by
\* make_safe_move is never a mine.
C1_Soundness ==
    /\ safes \cap board = {}
    /\ mines \subseteq board
    /\ (lastOp.op = "make_safe_move" /\ lastOp.ret # None) => lastOp.ret \notin board

C1_Witness ==
    /\ lastOp.op = "make_safe_move"
    /\ lastOp.ret # None
    /\ mines # {}
    /\ Len(knowledge) >= 2

\* C2: make_safe_move returns a cell of safes outside moves_made whenever one
\* exists, returns None exactly when safes is a subset of moves_made, and
\* leaves safes, mines, moves_made and knowledge unchanged.
C2_SafeMove ==
    /\ [](lastOp.op = "make_safe_move" =>
            /\ (lastOp.ret = None <=> safes \subseteq moves_made)
            /\ (lastOp.ret # None => lastOp.ret \in safes \ moves_made))
    /\ [][lastOp'.op = "make_safe_move" => UNCHANGED EngineVars]_vars

C2_Witness ==
    /\ lastOp.op = "make_safe_move"
    /\ lastOp.ret # None
    /\ safes \cap moves_made # {}

\* C3: mines and safes are disjoint after any sequence of add_knowledge calls
\* (truthful oracle) interleaved with the two move queries.
C3_Disjoint == mines \cap safes = {}

C3_Witness ==
    /\ mines # {}
    /\ safes \ moves_made # {}
    /\ lastOp.op # "add_knowledge"

\* C4: after any sequence of add_knowledge calls (truthful oracle) no retained
\* constraint contains a cell that is in mines or in safes.
C4_NoKnownCells ==
    \A i \in DOMAIN knowledge : knowledge[i].cells \cap (mines \cup safes) = {}

\* C5: after any sequence of add_knowledge calls (truthful oracle) every
\* retained constraint satisfies 0 <= count <= |cells|.
C5_CountInRange ==
    \A i \in DOMAIN knowledge :
        /\ 0 <= knowledge[i].count
        /\ knowledge[i].count <= Cardinality(knowledge[i].cells)

C5_Witness ==
    /\ lastOp.op = "add_knowledge"
    /\ mines # {}
    /\ Len(derivedKnowledge) > Len(sweptKnowledge)
    /\ \E i \in DOMAIN knowledge :
          /\ 0 < knowledge[i].count
          /\ knowledge[i].count < Cardinality(knowledge[i].cells)

\* C6: when add_knowledge returns, every constraint with count = |cells| # 0
\* has all its cells in mines and every constraint with count = 0 has all its
\* cells in safes.
C6_ExtractionFixpoint ==
    \A i \in DOMAIN knowledge :
        /\ (Cardinality(knowledge[i].cells) = knowledge[i].count /\ knowledge[i].count # 0)
               => knowledge[i].cells \subseteq mines
        /\ knowledge[i].count = 0 => knowledge[i].cells \subseteq safes

\* C7: for every pair (A, B) held in knowledge when the derivation pass starts
\* with B.cells a proper subset of A.cells, knowledge holds on return a
\* constraint with cells A.cells - B.cells and count A.count - B.count.
C7_SubsetDerivation ==
    \A a \in DOMAIN sweptKnowledge : \A b \in DOMAIN sweptKnowledge :
        LET A == sweptKnowledge[a]
            B == sweptKnowledge[b]
        IN  (B.cells \subseteq A.cells /\ B.cells # A.cells) =>
               \E k \in DOMAIN knowledge :
                   /\ knowledge[k].cells = A.cells \ B.cells
                   /\ knowledge[k].count = A.count - B.count

C7_Witness ==
    /\ lastOp.op = "add_knowledge"
    /\ \E a \in DOMAIN sweptKnowledge : \E b \in DOMAIN sweptKnowledge :
          /\ sweptKnowledge[b].cells # {}
          /\ sweptKnowledge[b].count # 0
          /\ sweptKnowledge[b].cells \subseteq sweptKnowledge[a].cells
          /\ sweptKnowledge[b].cells # sweptKnowledge[a].cells

\* C8: when add_knowledge returns no two constraints of knowledge have the
\* same cells and the same count, and the distinct (cells, count) contents
\* after the dedup step are those before it.
C8_Dedup ==
    /\ \A i \in DOMAIN knowledge : \A j \in DOMAIN knowledge :
          (knowledge[i].cells = knowledge[j].cells /\ knowledge[i].count = knowledge[j].count)
             => i = j
    /\ Range(knowledge) = Range(derivedKnowledge)

C8_Witness ==
    /\ lastOp.op = "add_knowledge"
    /\ Len(derivedKnowledge) > Len(knowledge)
    /\ \E i \in DOMAIN knowledge : \E j \in DOMAIN knowledge :
          /\ knowledge[i].count = knowledge[j].count
          /\ knowledge[i].cells # knowledge[j].cells

\* C9: in every reachable engine state and for every cell c, mark_mine(c)
\* called twice leaves the same mines, safes and knowledge content as called
\* once, and likewise mark_safe(c).
C9_MarkIdempotent ==
    \A c \in Cells :
        /\ mark_mine(mark_mine(Current, c), c) = mark_mine(Current, c)
        /\ mark_safe(mark_safe(Current, c), c) = mark_safe(Current, c)

C9_Witness ==
    /\ lastOp.op \in {"mark_mine", "mark_safe"}
    /\ \E i \in DOMAIN knowledge :
          /\ Cardinality(knowledge[i].cells) >= 2
          /\ knowledge[i].count >= 1
    /\ \E i \in DOMAIN knowledge : knowledge[i].cells = {}

\* C10: make_random_move returns an in-board cell outside moves_made and
\* mines whenever one exists, returns None exactly when moves_made and mines
\* together cover the board, and changes no engine state.
C10_RandomMove ==
    /\ [](lastOp.op = "make_random_move" =>
            /\ (lastOp.ret = None <=> Cells \subseteq (moves_made \cup mines))
            /\ (lastOp.ret # None =>
                   /\ lastOp.ret \in Cells
                   /\ lastOp.ret \notin moves_made
                   /\ lastOp.ret \notin mines))
    /\ [][lastOp'.op = "make_random_move" => UNCHANGED EngineVars]_vars

C10_Witness ==
    /\ lastOp.op = "make_random_move"
    /\ lastOp.ret = None
    /\ mines # {}
    /\ Cardinality(moves_made) >= 2

\* C11: after add_knowledge(cell, 0) from a truthful oracle every in-bounds
\* neighbour of cell is in safes, and make_safe_move then never returns the
\* observed cell and returns a not-yet-moved safe cell whenever one exists
\* (None otherwise).
C11_ZeroCount ==
    (lastObs.cell # None /\ lastObs.count = 0) =>
        /\ Adjacent(lastObs.cell) \subseteq safes
        /\ lastOp.op = "make_safe_move" =>
              /\ lastOp.ret # lastObs.cell
              /\ (SafeMoves(Current) # {} => lastOp.ret \in safes \ moves_made)
              /\ (SafeMoves(Current) = {} => lastOp.ret = None)

C11_Witness ==
    /\ lastObs.cell # None
    /\ lastObs.count = 0
    /\ lastOp.op = "make_safe_move"
    /\ lastOp.ret \in Adjacent(lastObs.cell)
    /\ board # {}

\* C11 as first stated: after add_knowledge(cell, 0), make_safe_move returns
\* one of the not-yet-moved safe cells.
C11_Original ==
    (lastObs.cell # None /\ lastObs.count = 0) =>
        /\ Adjacent(lastObs.cell) \subseteq safes
        /\ lastOp.op = "make_safe_move" =>
              /\ lastOp.ret # lastObs.cell
              /\ lastOp.ret \in safes \ moves_made

\* C12: when add_knowledge returns, knowledge is closed under subset
\* subtraction: for every retained pair (A, B) with B.cells a proper subset of
\* A.cells, a constraint with cells A.cells - B.cells and count
\* A.count - B.count is retained too.
C12_DerivationClosed ==
    \A a \in DOMAIN knowledge : \A b \in DOMAIN knowledge :
        LET A == knowledge[a]
            B == knowledge[b]
        IN  (B.cells \subseteq A.cells /\ B.cells # A.cells) =>
               \E k \in DOMAIN knowledge :
                   /\ knowledge[k].cells = A.cells \ B.cells
                   /\ knowledge[k].count = A.count - B.count

\* add_knowledge up to the end of the sweep, with mark_safe(cell) called
\* whether or not cell is already in safes.
ObserveMarkAlways(E, cell, count) ==
    LET E1 == [E EXCEPT !.moves_made = @ \cup {cell}]
        E2 == mark_safe(E1, cell)
        E3 == [E2 EXCEPT !.knowledge = Append(@, neighbors(E2, cell, count))]
    IN  Sweep(E3, 1)

\* C13: whenever add_knowledge(cell, count) is called with cell already in
\* safes, no constraint of knowledge contains cell, so the call ends in the
\* same state as a variant that calls mark_safe(cell) unconditionally.
C13_GuardRedundant ==
    \A c \in (Cells \ board) \cap safes :
        /\ \A i \in DOMAIN knowledge : c \notin knowledge[i].cells
        /\ LET E == Observe(Current, c, OracleCount(c))
               V == ObserveMarkAlways(Current, c, OracleCount(c))
           IN  /\ E = V
               /\ Derive(E.knowledge) = Derive(V.knowledge)

\* C14: after any sequence of add_knowledge calls from a truthful oracle, the
\* count of every retained constraint is the number of mines among its cells.
C14_KnowledgeTrue ==
    \A i \in DOMAIN knowledge :
        knowledge[i].count = Cardinality(knowledge[i].cells \cap board)

C14_Witness ==
    /\ lastOp.op = "add_knowledge"
    /\ \E i \in DOMAIN knowledge :
          /\ knowledge[i].count >= 1
          /\ knowledge[i].cells # {}
          /\ knowledge[i] \notin Range(sweptKnowledge)
    /\ \E i \in DOMAIN knowledge :
          /\ knowledge[i].count >= 1
          /\ Cardinality(knowledge[i].cells) >= 3

C18_Monotone ==
    [][/\ moves_made \subseteq moves_made'
       /\ safes \subseteq safes'
       /\ mines \subseteq mines']_vars

C18_Witness ==
    /\ lastOp.op = "mark_safe"
    /\ lastOp.cell \in safes
    /\ mines # {}
    /\ moves_made # {}
    /\ Cardinality(safes) >= 3

\* C19: Sentence.mark_mine(cell) removes cell and lowers count by exactly 1
\* when cell is in cells, Sentence.mark_safe(cell) removes cell and keeps
\* count, both change nothing when cell is not in cells, and no operation
\* adds a cell to the cell-set of a constraint already in knowledge.
C19_Reduction ==
    /\ [](\A i \in DOMAIN knowledge : \A c \in Cells :
            LET s == knowledge[i]
                m == SentenceMarkMine(s, c)
                f == SentenceMarkSafe(s, c)
            IN  /\ c \in s.cells =>
                      /\ m.cells = s.cells \ {c} /\ m.count = s.count - 1
                      /\ f.cells = s.cells \ {c} /\ f.count = s.count
                /\ c \notin s.cells => (m = s /\ f = s))
    /\ [][\A i \in DOMAIN knowledge :
            /\ lastOp'.op \in {"mark_mine", "mark_safe"} =>
                  /\ i \in DOMAIN knowledge'
                  /\ knowledge'[i].cells \subseteq knowledge[i].cells
            /\ lastOp'.op = "add_knowledge" =>
                  /\ i \in DOMAIN sweptKnowledge'
                  /\ sweptKnowledge'[i].cells \subseteq knowledge[i].cells
                  /\ derivedKnowledge'[i] = sweptKnowledge'[i]]_vars

C19_Witness ==
    /\ lastOp.op = "mark_mine"
    /\ \E i \in DOMAIN knowledge : knowledge[i].count < 0
    /\ \E i \in DOMAIN knowledge :
          /\ knowledge[i].count >= 1
          /\ knowledge[i].cells # {}

\* C17: in the game loop the played cell is never already in moves_made, every
\* turn that does not hit a mine adds it to moves_made, and the loop takes at
\* most height * width turns before it hits a mine or both suggestions are
\* None.
C17_GameProgress ==
    /\ [](calls <= height * width)
    /\ [][calls' # calls =>
            /\ lastOp'.cell \notin moves_made
            /\ lastOp'.cell \in Cells
            /\ (lastOp'.op = "hit_mine" \/ moves_made' = moves_made \cup {lastOp'.cell})]_vars

C17_Witness ==
    /\ lastOp.op = "add_knowledge"
    /\ calls >= 4
    /\ mines # {}
    /\ SafeMoves(Current) = {}
    /\ RandomMoves(Current) = {}

\* What is left of a running call, ordered lexicographically: the loops still
\* to run, the iterations left of the sweep or of the outer loop, and the
\* iterations left of the inner loop.
Remaining(r, kn) ==
    CASE r.pc = "sweep" -> <<3, Len(kn) - r.idx + 1, 0>>
      [] r.pc = "outer" -> <<2, Len(r.copyI) - r.i + 1, 0>>
      [] r.pc = "inner" -> <<2, Len(r.copyI) - r.i, Len(InnerList(r, kn)) - r.j + 2>>
      [] r.pc = "dedup" -> <<1, 0, 0>>
      [] OTHER -> <<0, 0, 0>>

LexLess(a, b) ==
    \/ a[1] < b[1]
    \/ a[1] = b[1] /\ a[2] < b[2]
    \/ a[1] = b[1] /\ a[2] = b[2] /\ a[3] < b[3]

\* C16: every call of add_knowledge terminates: while a call runs it can
\* always take its next step, and every step of the extraction sweep and of
\* the nested derivation loops strictly lowers a triple of natural numbers in
\* lexicographic order, so the call returns after finitely many steps.
C16_Terminates ==
    /\ [](run.pc # "idle" =>
            /\ ENABLED Steps
            /\ \A k \in 1 .. 3 : Remaining(run, knowledge)[k] >= 0)
    /\ [][run.pc # "idle" =>
            LexLess(Remaining(run', knowledge'), Remaining(run, knowledge))]_vars

\* C16 as a progress property of SpecSteps: a call that has been entered
\* returns.
C16_Returns == (run.pc # "idle") ~> (run.pc = "idle")

C16_Witness ==
    /\ run.pc = "idle"
    /\ lastOp.op = "add_knowledge"
    /\ Len(derivedKnowledge) > Len(sweptKnowledge) + 1
    /\ mines # {}

====
